---- MODULE Spec2Model ----
(***************************************************************************)
(* Deepavali showcase: slide controller (DeepavaliShowcase + useInterval), *)
(* the keyed slide frame (RamImageFX), the rotating greeting               *)
(* (RotatingGreeting), the ember particle field (RamImageFX embers         *)
(* effect), the vignette strength of a rendered frame and the audio bar    *)
(* (AudioControls).  Each component owns its own variables; a              *)
(* specification per component interleaves that component's handlers.      *)
(*                                                                         *)
(* A React render and the effects it schedules are one step: the handler   *)
(* that sets state, the re-render, the effect cleanups and the effect      *)
(* bodies of that commit.                                                  *)
(***************************************************************************)
EXTENDS Integers, Sequences, FiniteSets, TLC

\* ---------------------------------------------------------------- bounds
MaxTotal == 4        \* longest slide list drawn at construction
MaxTicks == 5        \* slide-advance ticks counted by the history variable
MaxFrames == 1       \* animation frames counted per mounted slide frame
MaxEmbers == 2       \* largest emberCount drawn
MaxPoolFrames == 40  \* frames followed for a pool of two or more particles
MaxFwFrames == 200   \* animation frames a mounted burst is followed for
MaxSeekSec == 30     \* furthest position a seek reaches while the duration is unknown

\* ------------------------------------------------------- slide controller
VARIABLES
  slides,      \* props.slides: the configured list, fixed at construction
  autoPlay,    \* props.autoPlay
  intervalMs,  \* props.intervalMs
  index,       \* useState(0) of DeepavaliShowcase
  saved,       \* useInterval: saved.current, the callback slot
  timers,      \* interval timers armed in the host (setInterval not yet cleared)
  intervalId,  \* id captured by the live effect closure of useInterval, 0 if none
  ticks,       \* history: interval ticks fired since construction
  userActed,   \* history: some prev/next/dot input has happened
  fxClock,     \* frames the mounted RamImageFX instance has lived (CSS clocks)
  poolAge      \* frames the live embers effect (its particle pool) has run

showcaseVars ==
  <<slides, autoPlay, intervalMs, index, saved, timers, intervalId,
    ticks, userActed, fxClock, poolAge>>


\* ---- rotating greeting: state
VARIABLES
  gMounted,     \* a RotatingGreeting instance is mounted (showGreeting)
  gI,           \* useState(0): index into GREETINGS
  gFade,        \* useState(true)
  gTimers,      \* interval timers armed by the instance's useInterval
  gIntervalId,  \* id captured by its delay effect, 0 if none
  gNext,        \* ms until the armed interval fires next
  gTimeouts,    \* pending setTimeout(..., 220) callbacks: [left, live]
  gTicked       \* history: the mounted instance's interval has fired

greetingVars ==
  <<gMounted, gI, gFade, gTimers, gIntervalId, gNext, gTimeouts, gTicked>>

\* ---- particle field (embers effect of one RamImageFX instance): state
VARIABLES
  eMounted,    \* the embers effect is set up (instance mounted, sparkles on)
  emberCount,  \* options.emberCount ?? 80, a dep of the effect
  hostSize,    \* host.getBoundingClientRect(): <<width, height>> in px
  dpr,         \* DPR = Math.min(2, window.devicePixelRatio || 1)
  canvasW,     \* canvas.width  (px)
  canvasH,     \* canvas.height (px)
  ps,          \* the particle array of the effect closure
  eRun,        \* the closure's run flag
  eRaf,        \* an animation-frame callback of the loop is pending
  eObserving,  \* the ResizeObserver observes the host
  eFrames,     \* history: frames run by the live loop (saturating)
  eDrawn,      \* history: particles drawn by the last frame
  eRecycled,   \* history: some particle of the live pool has been recycled
  eResized,    \* history: the surface was re-derived by a resize callback
  ctxNull,     \* canvas.getContext("2d") returned null for the live closure
  eThrown,     \* history: a TypeError escaped the effect body or a frame
  eQueued      \* frame callbacks of the field's closures queued in the host

emberVars ==
  <<eMounted, emberCount, hostSize, dpr, canvasW, canvasH, ps, eRun, eRaf,
    eObserving, eFrames, eDrawn, eRecycled, eResized, ctxNull, eThrown,
    eQueued>>

\* ---- vignette of a rendered slide frame: state
VARIABLES
  vEdition,  \* which RamImageFX source rendered: "none", "noblur", "bloom"
  vOption,   \* options.vignetteStrength in hundredths: <<>> or <<n>>
  vUsed      \* the strength the render multiplies its gradient alphas by

vignetteVars == <<vEdition, vOption, vUsed>>

\* ---- audio bar (AudioControls): state
VARIABLES
  aMounted,     \* the mount effect has run and its cleanup has not
  audioRef,     \* audioRef.current holds the element
  policy,       \* what the browser lets play() do without a user gesture
  activated,    \* the page has had a user gesture that permits playback
  autoplay,     \* the mount-time play() promise: pending, played, blocked
  unlockOn,     \* window event types on which unlock is registered
  unlockRuns,   \* history: times the body of unlock has run
  mSrc,         \* the element has its source
  mMuted,       \* a.muted
  mVolume,      \* a.volume, in hundredths
  mPaused,      \* a.paused
  mTime,        \* a.currentTime, in seconds
  mDuration,    \* a.duration: <<>> while not finite, else <<seconds>>
  playing,      \* useState(true)
  muted,        \* useState(false)
  vol,          \* useState(0.6), in hundredths
  played,       \* history: the last step called a.play()
  aEvent        \* history: the event the last step handled

audioVars ==
  <<aMounted, audioRef, policy, activated, autoplay, unlockOn, unlockRuns,
    mSrc, mMuted, mVolume, mPaused, mTime, mDuration, playing, muted, vol,
    played, aEvent>>

\* Some unlock listener is registered.
unlockArmed == unlockOn # {}

\* ---- useInterval, one caller re-rendering with any callback and delay
VARIABLES
  hCallback,  \* cb of the latest render
  hDelay,     \* delay of the latest render: <<>> or <<ms>>
  hSaved,     \* saved.current
  hTimers,    \* interval timers armed by the hook and not yet cleared
  hId,        \* id captured by the live delay-effect closure, 0 if none
  hArmedCb,   \* history: cb of the render whose delay effect armed the timer
  hCalled,    \* history: the callback the last tick invoked
  hTicks      \* history: ticks fired

hookVars ==
  <<hCallback, hDelay, hSaved, hTimers, hId, hArmedCb, hCalled, hTicks>>

\* ---- firework bursts of one slide frame
VARIABLES
  fwMounted,  \* the bursts are mounted
  fwEdition,  \* "bloom": Pop, script-driven; "noblur": Firework, CSS-driven
  fwDelays,   \* configured delays of the two bursts, hundredths of a second
  fwFrames    \* animation frames since mount

fireworkVars == <<fwMounted, fwEdition, fwDelays, fwFrames>>

vars ==
  <<showcaseVars, greetingVars, emberVars, vignetteVars, audioVars, hookVars,
    fireworkVars>>

\* What the handlers of one component leave alone: the other components.
notShowcase ==
  <<greetingVars, emberVars, vignetteVars, audioVars, hookVars, fireworkVars>>
notGreeting ==
  <<showcaseVars, emberVars, vignetteVars, audioVars, hookVars, fireworkVars>>
notEmbers ==
  <<showcaseVars, greetingVars, vignetteVars, audioVars, hookVars,
    fireworkVars>>
notVignette ==
  <<showcaseVars, greetingVars, emberVars, audioVars, hookVars, fireworkVars>>
notAudio ==
  <<showcaseVars, greetingVars, emberVars, vignetteVars, hookVars,
    fireworkVars>>
notHook ==
  <<showcaseVars, greetingVars, emberVars, vignetteVars, audioVars,
    fireworkVars>>
notFireworks ==
  <<showcaseVars, greetingVars, emberVars, vignetteVars, audioVars, hookVars>>

\* A delay is null or a number: <<>> or <<ms>>.
NullDelay == <<>>

\* Values of props.intervalMs drawn by the model (default and one override).
IntervalChoices == {5200, 3000}

\* Image references and per-slide ember options drawn by the model.
SlideSet ==
  { [src |-> "ram1", emberCount |-> 80],
    [src |-> "ram1", emberCount |-> 110],
    [src |-> "ram2", emberCount |-> 80] }

SlideLists == UNION {[1..n -> SlideSet] : n \in 1..MaxTotal}

\* JavaScript's % : the remainder takes the sign of the dividend.
JsRem(a, b) == IF a >= 0 THEN a % b ELSE -((-a) % b)

total == Len(slides)

\* Variants with a slip, used to test that the properties below depend on
\* the updaters: a step of two, and a decrement without the + total bias.
NextIndexByTwo(p) == JsRem(p + 2, total)
PrevIndexNoBias(p) == JsRem(p - 1, total)

\* setIndex updaters of next and prev.
NextIndex(p) == JsRem(p + 1, total)
PrevIndex(p) == JsRem(p - 1 + total, total)

\* Variant: the timer is left armed (merely idle) when autoPlay is off.
DelayAlwaysArmed(ap, ms) == <<ms>>

\* The delay handed to useInterval by the render: autoPlay ? intervalMs : null.
DelayOf(ap, ms) == IF ap THEN <<ms>> ELSE NullDelay

\* The callback a render creates: () => { if (autoPlay) next(); }.  The
\* closure is determined by the autoPlay it captured (next uses a functional
\* update and total is fixed).
CallbackOf(ap) == [autoPlay |-> ap]

TimerIds(T) == {t.id : t \in T}
FreshId(T) == CHOOSE k \in 1..(Cardinality(T) + 1) : k \notin TimerIds(T)

\* Variant: an effect without its cleanup.
ClearNothing(T, id) == T

\* Cleanup of the delay effect: clearInterval(id) of the id the closure holds.
ClearOwn(T, id) == {t \in T : t.id # id}

\* useInterval's second effect when [delay] changed: the previous cleanup
\* runs, then the body arms a timer unless delay == null.  Yields the new
\* <<timers, intervalId>>.
RearmInterval(T, id, delay) ==
  LET cleared == ClearOwn(T, id) IN
  IF delay = NullDelay
    THEN <<cleared, 0>>
    ELSE LET k == FreshId(cleared) IN
         <<cleared \cup {[id |-> k, delay |-> delay]}, k>>

\* Effects of useInterval after a render with props (ap, ms): the [cb]
\* effect stores the new callback; the [delay] effect re-runs only if the
\* delay differs from the previous render's.
IntervalEffects(ap, ms) ==
  /\ saved' = CallbackOf(ap)
  /\ IF DelayOf(ap, ms) = DelayOf(autoPlay, intervalMs)
       THEN UNCHANGED <<timers, intervalId>>
       ELSE LET r == RearmInterval(timers, intervalId, DelayOf(ap, ms)) IN
            /\ timers' = r[1]
            /\ intervalId' = r[2]

Bump(n) == IF n < MaxFrames THEN n + 1 ELSE n

\* slides[j]; outside the list JavaScript yields undefined (and the render
\* that reads slide.src fails, which removes the frame).
SlideAt(j) ==
  IF j \in 0..(total - 1)
    THEN slides[j + 1]
    ELSE [src |-> "undefined", emberCount |-> 0]

\* <RamImageFX key={slide.src} ... options={slide.options}/> re-rendered for
\* slide j while slide i was shown: a different key unmounts the instance and
\* mounts a fresh one; the same key keeps the instance, and its embers effect
\* is torn down and re-run only if its deps (emberCount) changed.
FrameAfter(i, j) ==
  IF SlideAt(j).src # SlideAt(i).src
    THEN /\ fxClock' = 0
         /\ poolAge' = 0
    ELSE IF SlideAt(j).emberCount # SlideAt(i).emberCount
      THEN /\ poolAge' = 0
           /\ UNCHANGED fxClock
      ELSE UNCHANGED <<fxClock, poolAge>>

\* setIndex(j) and the render it causes.
SetIndex(j) ==
  /\ index' = j
  /\ FrameAfter(index, j)
  /\ saved' = CallbackOf(autoPlay)
  /\ UNCHANGED <<slides, autoPlay, intervalMs, timers, intervalId>>

\* Variant: the greeting is keyed by the slide, so a slide change remounts it.
nextRekeysGreeting ==
  /\ SetIndex(NextIndex(index))
  /\ userActed' = TRUE
  /\ UNCHANGED ticks
  /\ gI' = 0
  /\ gFade' = TRUE
  /\ UNCHANGED <<gMounted, gTimers, gIntervalId, gNext, gTimeouts, gTicked>>
  /\ UNCHANGED <<emberVars, vignetteVars, audioVars, hookVars, fireworkVars>>

\* Controls onNext / onPrev, Dots onPick(i).
next ==
  /\ SetIndex(NextIndex(index))
  /\ userActed' = TRUE
  /\ UNCHANGED ticks
  /\ UNCHANGED notShowcase

prev ==
  /\ SetIndex(PrevIndex(index))
  /\ userActed' = TRUE
  /\ UNCHANGED ticks
  /\ UNCHANGED notShowcase

goTo ==
  \E i \in 0..(total - 1) :
    /\ SetIndex(i)
    /\ userActed' = TRUE
    /\ UNCHANGED ticks
    /\ UNCHANGED notShowcase

\* An armed interval fires: () => saved.current(), i.e. if (autoPlay) next().
Tick ==
  /\ ticks < MaxTicks
  /\ \E t \in timers :
       /\ ticks' = ticks + 1
       /\ IF saved.autoPlay
            THEN SetIndex(NextIndex(index))
            ELSE UNCHANGED <<slides, autoPlay, intervalMs, index, saved,
                             timers, intervalId, fxClock, poolAge>>
       /\ UNCHANGED userActed
  /\ UNCHANGED notShowcase

\* The parent re-renders the showcase with other autoPlay / intervalMs props.
SetProps ==
  \E ap \in BOOLEAN, ms \in IntervalChoices :
    /\ <<ap, ms>> # <<autoPlay, intervalMs>>
    /\ autoPlay' = ap
    /\ intervalMs' = ms
    /\ IntervalEffects(ap, ms)
    /\ UNCHANGED <<slides, index, ticks, userActed, fxClock, poolAge>>
    /\ UNCHANGED notShowcase

\* One animation frame of the mounted slide frame.
FxFrame ==
  /\ fxClock < MaxFrames \/ poolAge < MaxFrames
  /\ fxClock' = Bump(fxClock)
  /\ poolAge' = Bump(poolAge)
  /\ UNCHANGED <<slides, autoPlay, intervalMs, index, saved, timers,
                 intervalId, ticks, userActed>>
  /\ UNCHANGED notShowcase

\* State after the first commit: index 0, the callback stored, the interval
\* armed unless autoPlay is off.
InitShowcase ==
  /\ slides \in SlideLists
  /\ autoPlay \in BOOLEAN
  /\ intervalMs \in IntervalChoices
  /\ index = 0
  /\ saved = CallbackOf(autoPlay)
  /\ timers = RearmInterval({}, 0, DelayOf(autoPlay, intervalMs))[1]
  /\ intervalId = RearmInterval({}, 0, DelayOf(autoPlay, intervalMs))[2]
  /\ ticks = 0
  /\ userActed = FALSE
  /\ fxClock = 0
  /\ poolAge = 0

NextShowcase ==
  \/ next
  \/ prev
  \/ goTo
  \/ Tick
  \/ SetProps
  \/ FxFrame

\* ------------------------------------------------------ rotating greeting

\* GREETINGS.length: twelve distinct strings.
GreetingCount == 12
\* <RotatingGreeting intervalMs={3200} />
GreetingIntervalMs == 3200
\* setTimeout(..., 220)
FadeMs == 220

\* Amounts of time the model lets pass between two timer callbacks.
ElapseChoices == {100, 1000}

\* Variant: the updater skips a string.
NextGreetingSkip(p) == JsRem(p + 2, GreetingCount)

\* setI updater: (p) => (p + 1) % GREETINGS.length.
NextGreeting(p) == JsRem(p + 1, GreetingCount)

\* Every pending deadline of the greeting's timers, in ms from now.
GreetingDeadlines ==
  {t.left : t \in gTimeouts} \cup (IF gTimers = {} THEN {} ELSE {gNext})

Later(T, d) == {[left |-> t.left - d, live |-> t.live] : t \in T}

\* Time passes and no timer of the greeting is due yet.
GreetingElapse ==
  \E d \in ElapseChoices :
    /\ GreetingDeadlines # {}
    /\ \A x \in GreetingDeadlines : d < x
    /\ gTimeouts' = Later(gTimeouts, d)
    /\ gNext' = IF gTimers = {} THEN gNext ELSE gNext - d
    /\ UNCHANGED <<gMounted, gI, gFade, gTimers, gIntervalId, gTicked>>
    /\ UNCHANGED notGreeting

\* Variant: the callback swaps the text at the tick, before the fade-out.
GreetingTickSwapsNow ==
  /\ gTimers # {}
  /\ \A x \in GreetingDeadlines : gNext <= x
  /\ gFade' = FALSE
  /\ gI' = JsRem(gI + 1, GreetingCount)
  /\ gTimeouts' = Later(gTimeouts, gNext) \cup {[left |-> FadeMs, live |-> TRUE]}
  /\ gNext' = GreetingIntervalMs
  /\ gTicked' = TRUE
  /\ UNCHANGED <<gMounted, gTimers, gIntervalId>>
  /\ UNCHANGED notGreeting

\* The interval fires once it is the earliest deadline: saved.current() runs
\* setFade(false) and schedules the swap 220 ms later.
GreetingTick ==
  /\ gTimers # {}
  /\ \A x \in GreetingDeadlines : gNext <= x
  /\ gFade' = FALSE
  /\ gTimeouts' = Later(gTimeouts, gNext) \cup {[left |-> FadeMs, live |-> TRUE]}
  /\ gNext' = GreetingIntervalMs
  /\ gTicked' = TRUE
  /\ UNCHANGED <<gMounted, gI, gTimers, gIntervalId>>
  /\ UNCHANGED notGreeting

\* A pending timeout fires once it is the earliest deadline:
\* setI((p) => (p + 1) % GREETINGS.length); setFade(true).  The setters of an
\* instance that has been unmounted change no state.
GreetingTimeout ==
  \E t \in gTimeouts :
    /\ \A x \in GreetingDeadlines : t.left <= x
    /\ gTimeouts' = Later(gTimeouts \ {t}, t.left)
    /\ gNext' = IF gTimers = {} THEN gNext ELSE gNext - t.left
    /\ IF t.live
         THEN /\ gI' = NextGreeting(gI)
              /\ gFade' = TRUE
         ELSE UNCHANGED <<gI, gFade>>
    /\ UNCHANGED <<gMounted, gTimers, gIntervalId, gTicked>>
    /\ UNCHANGED notGreeting

\* Unmount: the delay effect's cleanup clears the interval.  The component
\* keeps no handle on its timeouts; they stay pending.  The instance's state
\* is discarded.
GreetingUnmount ==
  /\ gMounted
  /\ gMounted' = FALSE
  /\ gTimers' = ClearOwn(gTimers, gIntervalId)
  /\ gIntervalId' = 0
  /\ gTimeouts' = {[left |-> t.left, live |-> FALSE] : t \in gTimeouts}
  /\ gI' = 0
  /\ gFade' = TRUE
  /\ gNext' = 0
  /\ gTicked' = FALSE
  /\ UNCHANGED notGreeting

\* Mount: fresh state, the interval armed with delay 3200.
GreetingMount ==
  /\ ~gMounted
  /\ gMounted' = TRUE
  /\ gI' = 0
  /\ gFade' = TRUE
  /\ gTimers' = RearmInterval({}, 0, <<GreetingIntervalMs>>)[1]
  /\ gIntervalId' = RearmInterval({}, 0, <<GreetingIntervalMs>>)[2]
  /\ gNext' = GreetingIntervalMs
  /\ gTicked' = FALSE
  /\ UNCHANGED gTimeouts
  /\ UNCHANGED notGreeting

InitGreeting ==
  /\ gMounted = TRUE
  /\ gI = 0
  /\ gFade = TRUE
  /\ gTimers = RearmInterval({}, 0, <<GreetingIntervalMs>>)[1]
  /\ gIntervalId = RearmInterval({}, 0, <<GreetingIntervalMs>>)[2]
  /\ gNext = GreetingIntervalMs
  /\ gTimeouts = {}
  /\ gTicked = FALSE

NextGreetingStep ==
  \/ GreetingElapse
  \/ GreetingTick
  \/ GreetingTimeout
  \/ GreetingUnmount
  \/ GreetingMount

\* ------------------------------------------------------------ particle field
\* Fixed point: lengths and speeds in 1/10000 px, alpha in 1/10000, hue in
\* 1/100 degree, Math.random() in 1/100.
PxUnit == 100 * 100
\* p.a -= 0.0008
AlphaDecay == 8
\* p.a <= 0.02
AlphaFloor == 200
\* p.y < -10 * DPR ; p.y = canvas.height + 10 * DPR
EdgeMarginPx == 10
\* hueMin = options.hueMin ?? 35 ; hueMax = options.hueMax ?? 60
HueMin == 35
HueMax == 60

\* Values of Math.random() drawn by the model, and the draws of one spawn
\* (seven calls at construction, six at a recycle) taken together.
RandDraws == {0, 99}
RandVecs == {[k \in 1..7 |-> d] : d \in RandDraws}

\* window.devicePixelRatio (0 stands for a missing value), host rectangles.
DeviceRatios == {0, 3}
HostSizes == {<<0, 0>>, <<640, 360>>}

Min2(a, b) == IF a < b THEN a ELSE b
Max2(a, b) == IF a > b THEN a ELSE b

\* Math.min(2, window.devicePixelRatio || 1)
DprOf(ratio) == Min2(2, IF ratio = 0 THEN 1 ELSE ratio)

\* canvas.width = Math.max(1, Math.floor(r.width * DPR)), likewise height.
SurfaceOf(size, D) == <<Max2(1, size[1] * D), Max2(1, size[2] * D)>>

\* Array.from({ length: N }): ToLength clamps a negative length to 0.
ToLength(n) == IF n < 0 THEN 0 ELSE n

randHue(d) == HueMin * 100 + d * (HueMax - HueMin)

\* A particle of the initial array.
NewParticle(rv, W, H, D) ==
  [ x   |-> rv[1] * W * (PxUnit \div 100),
    y   |-> rv[2] * H * (PxUnit \div 100),
    vx  |-> (rv[3] - 50) * 8 * D,
    vy  |-> -(1200 + rv[4] * 20) * D,
    r   |-> (10000 + rv[5] * 180) * D,
    a   |-> 3000 + rv[6] * 60,
    hue |-> randHue(rv[7]) ]

\* The values a recycle writes into the slot.
Respawn(rv, W, H, D) ==
  [ x   |-> rv[1] * W * (PxUnit \div 100),
    y   |-> (H + EdgeMarginPx * D) * PxUnit,
    a   |-> 4000 + rv[2] * 60,
    vx  |-> (rv[3] - 50) * 8 * D,
    vy  |-> -(1200 + rv[4] * 20) * D,
    r   |-> (10000 + rv[5] * 180) * D,
    hue |-> randHue(rv[6]) ]

\* Variant: the frame moves the particle but leaves its alpha alone.
AdvanceNoDecay(p) == [p EXCEPT !.x = @ + p.vx, !.y = @ + p.vy]

\* p.x += p.vx; p.y += p.vy; p.a -= 0.0008
Advance(p) == [p EXCEPT !.x = @ + p.vx, !.y = @ + p.vy, !.a = @ - AlphaDecay]

\* Variant: only a faded particle is recycled, not one that left the top.
NeedsRecycleAlphaOnly(q, D) == q.a <= AlphaFloor

\* if (p.y < -10 * DPR || p.a <= 0.02)
NeedsRecycle(q, D) == q.y < -(EdgeMarginPx * D * PxUnit) \/ q.a <= AlphaFloor

\* The loop body for one slot.
StepParticle(p, rv, W, H, D) ==
  IF NeedsRecycle(Advance(p), D) THEN Respawn(rv, W, H, D) ELSE Advance(p)

\* Variant: a dead particle is dropped from the array instead of recycled.
StepAllDropping(P, rvs, W, H, D) ==
  LET RECURSIVE keep(_)
      keep(k) ==
        IF k > Len(P) THEN <<>>
        ELSE IF NeedsRecycle(Advance(P[k]), D)
          THEN keep(k + 1)
          ELSE <<Advance(P[k])>> \o keep(k + 1)
  IN keep(1)

\* for (const p of ps) { ... }: every slot stepped in place.
StepAll(P, rvs, W, H, D) ==
  [k \in 1..Len(P) |-> StepParticle(P[k], rvs[k], W, H, D)]

SomeRecycle(P, D) == \E k \in 1..Len(P) : NeedsRecycle(Advance(P[k]), D)

BumpFrames(n) == IF n < MaxPoolFrames THEN n + 1 ELSE n

\* Variant: the cleanup leaves the requested frame in the host's queue.
CancelNothing(q) == q

\* cancelAnimationFrame(raf): the callback requested last leaves the queue.
CancelFrame(q) == IF q > 0 THEN q - 1 ELSE 0

\* The queue once the previous run's cleanup, if there was a run, is done.
AfterCleanup(mounted, q) == IF mounted THEN CancelFrame(q) ELSE q

\* The effect body: size the surface, observe the host, build the pool and
\* call tick() once (which requests the next frame and runs the first frame).
\* One vector of draws per slot serves its construction and its first frame.
EmbersSetup(n, size, ratio) ==
  \E rvs \in [1..ToLength(n) -> RandVecs] :
    LET D == DprOf(ratio)
        S == SurfaceOf(size, D)
        P == [k \in 1..ToLength(n) |-> NewParticle(rvs[k], S[1], S[2], D)]
    IN /\ eMounted' = TRUE
       /\ emberCount' = n
       /\ hostSize' = size
       /\ dpr' = D
       /\ canvasW' = S[1]
       /\ canvasH' = S[2]
       /\ ps' = StepAll(P, rvs, S[1], S[2], D)
       /\ eRun' = TRUE
       /\ eRaf' = TRUE
       /\ eObserving' = TRUE
       /\ eFrames' = 1
       /\ eDrawn' = Len(ps')
       /\ eRecycled' = SomeRecycle(P, D)
       /\ eResized' = FALSE
       /\ ctxNull' = FALSE
       /\ eThrown' = FALSE
       /\ eQueued' = AfterCleanup(eMounted, eQueued) + 1

\* The effect body when getContext("2d") returns null: the non-null assertion
\* checks nothing, so the surface is sized, the host observed, the pool built
\* and tick() called; tick requests the next frame and then ctx.clearRect
\* throws.  The effect returns no cleanup and React discards the tree.
EmbersSetupNoContext(n, size, ratio) ==
  \E rvs \in [1..ToLength(n) -> RandVecs] :
    LET D == DprOf(ratio)
        S == SurfaceOf(size, D)
    IN /\ eMounted' = FALSE
       /\ emberCount' = n
       /\ hostSize' = size
       /\ dpr' = D
       /\ canvasW' = S[1]
       /\ canvasH' = S[2]
       /\ ps' = [k \in 1..ToLength(n) |-> NewParticle(rvs[k], S[1], S[2], D)]
       /\ eRun' = TRUE
       /\ eRaf' = TRUE
       /\ eObserving' = TRUE
       /\ eFrames' = 0
       /\ eDrawn' = 0
       /\ eRecycled' = FALSE
       /\ eResized' = FALSE
       /\ ctxNull' = TRUE
       /\ eThrown' = TRUE
       /\ eQueued' = AfterCleanup(eMounted, eQueued) + 1

\* tick: one animation frame of the live loop.
EmbersFrame ==
  /\ eRun /\ eRaf /\ ~ctxNull
  /\ Len(ps) <= 1 \/ eFrames < MaxPoolFrames
  /\ \E rvs \in [1..Len(ps) -> RandVecs] :
       ps' = StepAll(ps, rvs, canvasW, canvasH, dpr)
  /\ eRaf' = TRUE
  /\ eFrames' = BumpFrames(eFrames)
  /\ eDrawn' = Len(ps')
  /\ eRecycled' = (eRecycled \/ SomeRecycle(ps, dpr))
  /\ UNCHANGED <<eMounted, emberCount, hostSize, dpr, canvasW, canvasH, eRun,
                 eObserving, eResized, ctxNull, eThrown, eQueued>>
  /\ UNCHANGED notEmbers

\* tick of a closure whose ctx is null: run is still true, the next frame is
\* requested, and ctx.clearRect throws before any particle is stepped.
EmbersFrameNoContext ==
  /\ eRun /\ eRaf /\ ctxNull
  /\ eRaf' = TRUE
  /\ eThrown' = TRUE
  /\ eFrames' = BumpFrames(eFrames)
  /\ UNCHANGED <<eMounted, emberCount, hostSize, dpr, canvasW, canvasH, ps,
                 eRun, eObserving, eDrawn, eRecycled, eResized, ctxNull,
                 eQueued>>
  /\ UNCHANGED notEmbers

\* Variant: the resize callback also rebuilds the pool for the new surface.
EmbersResizeRebuilds ==
  \E size \in HostSizes, rvs \in [1..Len(ps) -> RandVecs] :
    /\ eObserving
    /\ hostSize' = size
    /\ canvasW' = SurfaceOf(size, dpr)[1]
    /\ canvasH' = SurfaceOf(size, dpr)[2]
    /\ ps' = [k \in 1..Len(ps) |->
                NewParticle(rvs[k], canvasW', canvasH', dpr)]
    /\ eResized' = TRUE
    /\ UNCHANGED <<eMounted, emberCount, dpr, eRun, eRaf, eObserving,
                   eFrames, eDrawn, eRecycled, ctxNull, eThrown, eQueued>>
    /\ UNCHANGED notEmbers

\* The ResizeObserver callback setSize, for a changed or an unchanged host.
EmbersResize ==
  \E size \in HostSizes :
    /\ eObserving
    /\ hostSize' = size
    /\ canvasW' = SurfaceOf(size, dpr)[1]
    /\ canvasH' = SurfaceOf(size, dpr)[2]
    /\ eResized' = TRUE
    /\ UNCHANGED <<eMounted, emberCount, dpr, ps, eRun, eRaf, eObserving,
                   eFrames, eDrawn, eRecycled, ctxNull, eThrown, eQueued>>
    /\ UNCHANGED notEmbers

\* The effect's cleanup: run = false; cancelAnimationFrame(raf);
\* ro.disconnect().  The closure's array is dropped with it.
EmbersTeardown ==
  /\ eMounted' = FALSE
  /\ eRun' = FALSE
  /\ eRaf' = FALSE
  /\ eObserving' = FALSE
  /\ ps' = <<>>
  /\ eFrames' = 0
  /\ eDrawn' = 0
  /\ eRecycled' = FALSE
  /\ eResized' = FALSE
  /\ eQueued' = CancelFrame(eQueued)
  /\ UNCHANGED <<emberCount, hostSize, dpr, canvasW, canvasH, ctxNull,
                 eThrown>>

\* The instance is unmounted (slide change, sparkles switched off).
EmbersUnmount ==
  /\ eMounted
  /\ EmbersTeardown
  /\ UNCHANGED notEmbers

\* An instance is mounted with some emberCount on some host and device.
EmbersMount ==
  /\ ~eMounted /\ ~eThrown
  /\ \E n \in 0..MaxEmbers, size \in HostSizes, ratio \in DeviceRatios :
       EmbersSetup(n, size, ratio)
  /\ UNCHANGED notEmbers

\* An instance is mounted on a canvas that yields no 2D context.
EmbersMountNoContext ==
  /\ ~eMounted /\ ~eThrown
  /\ \E n \in 0..MaxEmbers, size \in HostSizes, ratio \in DeviceRatios :
       EmbersSetupNoContext(n, size, ratio)
  /\ UNCHANGED notEmbers

\* A re-render of the mounted instance changes emberCount: the effect's deps
\* differ, its cleanup runs and the effect body runs again.
EmbersReconfigure ==
  /\ eMounted
  /\ \E n \in 0..MaxEmbers, ratio \in DeviceRatios :
       /\ n # emberCount
       /\ EmbersSetup(n, hostSize, ratio)
  /\ UNCHANGED notEmbers

\* Before any instance is mounted.
InitEmbers ==
  /\ eMounted = FALSE
  /\ emberCount = 0
  /\ hostSize = <<0, 0>>
  /\ dpr = 1
  /\ canvasW = 1
  /\ canvasH = 1
  /\ ps = <<>>
  /\ eRun = FALSE
  /\ eRaf = FALSE
  /\ eObserving = FALSE
  /\ eFrames = 0
  /\ eDrawn = 0
  /\ eRecycled = FALSE
  /\ eResized = FALSE
  /\ ctxNull = FALSE
  /\ eThrown = FALSE
  /\ eQueued = 0

NextEmbers ==
  \/ EmbersMount
  \/ EmbersMountNoContext
  \/ EmbersFrame
  \/ EmbersFrameNoContext
  \/ EmbersResize
  \/ EmbersReconfigure
  \/ EmbersUnmount

\* ---------------------------------------------------------- useInterval
\* Callbacks and delays a caller's renders hand to the hook.
Callbacks == {"f", "g", "h"}
HookDelays == {NullDelay, <<3000>>, <<5200>>}

\* A render with (cb, delay): the [cb] effect stores cb if it is a new
\* function; the [delay] effect, if the delay changed, runs its cleanup and
\* arms a new timer unless delay == null.
HookRender ==
  \E cb \in Callbacks, delay \in HookDelays :
    /\ <<cb, delay>> # <<hCallback, hDelay>>
    /\ hCallback' = cb
    /\ hDelay' = delay
    /\ hSaved' = cb
    /\ IF delay = hDelay
         THEN UNCHANGED <<hTimers, hId, hArmedCb>>
         ELSE /\ hTimers' = RearmInterval(hTimers, hId, delay)[1]
              /\ hId' = RearmInterval(hTimers, hId, delay)[2]
              /\ hArmedCb' = cb
    /\ UNCHANGED <<hCalled, hTicks>>
    /\ UNCHANGED notHook

\* Variant: the timer calls the function it was armed with.
HookTickCallsArmed ==
  /\ hTicks < MaxTicks
  /\ \E t \in hTimers :
       /\ hCalled' = hArmedCb
       /\ hTicks' = hTicks + 1
  /\ UNCHANGED <<hCallback, hDelay, hSaved, hTimers, hId, hArmedCb>>
  /\ UNCHANGED notHook

\* An armed timer fires: () => saved.current().
HookTick ==
  /\ hTicks < MaxTicks
  /\ \E t \in hTimers :
       /\ hCalled' = hSaved
       /\ hTicks' = hTicks + 1
  /\ UNCHANGED <<hCallback, hDelay, hSaved, hTimers, hId, hArmedCb>>
  /\ UNCHANGED notHook

\* After the first render and its effects.
InitHook ==
  /\ hCallback \in Callbacks
  /\ hDelay \in HookDelays
  /\ hSaved = hCallback
  /\ hTimers = RearmInterval({}, 0, hDelay)[1]
  /\ hId = RearmInterval({}, 0, hDelay)[2]
  /\ hArmedCb = hCallback
  /\ hCalled = "none"
  /\ hTicks = 0

\* The hook as the other components' specifications hold it.
InitHookIdle ==
  /\ InitHook
  /\ hCallback = "f"
  /\ hDelay = NullDelay

NextHook ==
  \/ HookRender
  \/ HookTick

\* ------------------------------------------------------------- vignette
\* Values of options.vignetteStrength drawn by the model, in hundredths:
\* missing, and every hundredth from -1 to 2.
VignetteInputs == {<<>>} \cup {<<n>> : n \in (-100)..200}

\* options.vignetteStrength ?? d
OrDefault(opt, d) == IF opt = <<>> THEN d ELSE opt[1]

\* Math.max(0, Math.min(1, options.vignetteStrength ?? 0.6))
VignetteNoBlur(opt) == Max2(0, Min2(100, OrDefault(opt, 60)))

\* options.vignetteStrength ?? 1
VignetteBloom(opt) == OrDefault(opt, 100)

\* A render of the no-blur RamImageFX with some options.
RenderNoBlur ==
  \E opt \in VignetteInputs :
    /\ vEdition' = "noblur"
    /\ vOption' = opt
    /\ vUsed' = VignetteNoBlur(opt)
    /\ UNCHANGED notVignette

\* A render of the bloom RamImageFX with some options.
RenderBloom ==
  \E opt \in VignetteInputs :
    /\ vEdition' = "bloom"
    /\ vOption' = opt
    /\ vUsed' = VignetteBloom(opt)
    /\ UNCHANGED notVignette

\* Before any render.
InitVignette ==
  /\ vEdition = "none"
  /\ vOption = <<>>
  /\ vUsed = 0

NextVignette ==
  \/ RenderNoBlur
  \/ RenderBloom

\* ------------------------------------------------------------ audio bar
\* useState(0.6): the volume every closure of the first render sees.
InitialVol == 60
\* ArrowUp / ArrowDown: volume + 0.1, volume - 0.1
VolStep == 10
\* skip(10), skip(-10)
SkipSec == 10
\* a.duration of the track once its metadata is loaded, in seconds.
TrackSec == 20
\* Seconds of playback between two observations of a.currentTime.
PlaySec == 5

\* Values the range input reports, in hundredths.
SliderValues == {0, 35}

\* The events unlock is registered on.
UnlockEvents == {"pointerdown", "keydown", "touchstart"}

\* Keys the keydown listeners receive.
Keys == {"m", " ", "ArrowRight", "ArrowLeft", "ArrowUp", "ArrowDown", "x"}

\* Browser autoplay policy without a user gesture: any play() succeeds, only
\* a muted play() succeeds, or none does.
Policies == {"allow", "mutedOnly", "block"}

\* The fields the handlers read and write, gathered so that the listeners of
\* one event can run one after the other.
AudioState ==
  [ act |-> activated, on |-> unlockOn, runs |-> unlockRuns,
    mMuted |-> mMuted, mVolume |-> mVolume, mPaused |-> mPaused,
    mTime |-> mTime, playing |-> playing, muted |-> muted, vol |-> vol,
    played |-> FALSE ]

\* a.play().catch(() => {}): playback starts if the element has a source and
\* the browser permits it; a rejection is swallowed.
CanPlay(s) ==
  /\ mSrc
  /\ s.act \/ policy = "allow" \/ (s.mMuted /\ policy = "mutedOnly")

Play(s) ==
  [s EXCEPT !.played = TRUE, !.mPaused = IF CanPlay(s) THEN FALSE ELSE @]

\* State setters of an unmounted component do nothing.
SetPlaying(s, v) == IF aMounted THEN [s EXCEPT !.playing = v] ELSE s
SetMuted(s, v) == IF aMounted THEN [s EXCEPT !.muted = v] ELSE s
SetVol(s, v) == IF aMounted THEN [s EXCEPT !.vol = v] ELSE s

togglePlay(s) ==
  IF ~audioRef THEN s
  ELSE IF s.mPaused THEN SetPlaying(Play(s), TRUE)
  ELSE SetPlaying([s EXCEPT !.mPaused = TRUE], FALSE)

\* Variant: the seek target is not clamped.
SeekTargetUnclamped(t, d, dur) == t + d

\* Math.max(0, Math.min(isFinite(duration) ? duration
\*                        : a.currentTime + deltaSec + 1,
\*                      a.currentTime + deltaSec))
SeekTarget(t, d, dur) ==
  Max2(0, Min2(IF dur # <<>> THEN dur[1] ELSE t + d + 1, t + d))

skip(s, d) ==
  IF ~audioRef THEN s
  ELSE LET s1 == [s EXCEPT !.mTime = SeekTarget(s.mTime, d, mDuration)]
       IN IF s1.mPaused THEN SetPlaying(Play(s1), TRUE) ELSE s1

\* toggleMute of the render whose vol is v.
toggleMute(s, v) ==
  IF ~audioRef THEN s
  ELSE LET s1 == [s EXCEPT !.mMuted = ~@]
           s2 == SetMuted(s1, s1.mMuted)
           s3 == [s2 EXCEPT !.mVolume = v]
       IN IF s2.mMuted THEN s2
          ELSE IF s3.mPaused THEN Play(s3) ELSE s3

\* Variant: a volume of zero unmutes as well.
changeVolAlwaysUnmutes(s, v) ==
  LET s1 == SetVol(s, v)
      s2 == [s1 EXCEPT !.mVolume = v]
  IN IF ~audioRef THEN s1
     ELSE IF s2.mMuted
       THEN Play(SetMuted([s2 EXCEPT !.mMuted = FALSE], FALSE))
       ELSE s2

changeVol(s, v) ==
  LET s1 == SetVol(s, v)
      s2 == [s1 EXCEPT !.mVolume = v]
  IN IF ~audioRef THEN s1
     ELSE IF s2.mMuted /\ v > 0
       THEN Play(SetMuted([s2 EXCEPT !.mMuted = FALSE], FALSE))
       ELSE s2

\* Variant: the unlock listener requests playback but leaves the mute on.
unlockStaysMuted(s) ==
  [Play([s EXCEPT !.mVolume = InitialVol]) EXCEPT !.on = {},
                                                  !.runs = @ + 1]

\* Variant: the body does not remove its listeners.
unlockKeepsListeners(s) ==
  LET s1 == Play([s EXCEPT !.mMuted = FALSE, !.mVolume = InitialVol])
  IN [SetMuted(s1, FALSE) EXCEPT !.runs = @ + 1]

\* unlock: a closure of the mount effect, so its vol is the first render's.
\* Its last three statements remove it from all three events.
unlock(s) ==
  LET s1 == Play([s EXCEPT !.mMuted = FALSE, !.mVolume = InitialVol])
  IN [SetMuted(s1, FALSE) EXCEPT !.on = {}, !.runs = @ + 1]

\* A window event of type ev reaches unlock if it is registered for ev;
\* { once: true } unregisters it for ev before it runs.
DispatchUnlock(s, ev) ==
  IF ev \in s.on THEN unlock([s EXCEPT !.on = @ \ {ev}]) ELSE s

\* Variant: the arrow keys clamp one step outside [0, 1].
onKeyClampsLate(s, key) ==
  IF ~audioRef THEN s
  ELSE IF key = "m" THEN toggleMute(s, InitialVol)
  ELSE IF key = " " THEN togglePlay(s)
  ELSE IF key = "ArrowRight" THEN skip(s, SkipSec)
  ELSE IF key = "ArrowLeft" THEN skip(s, -SkipSec)
  ELSE IF key = "ArrowUp"
    THEN changeVol(s, Min2(100 + VolStep, s.mVolume + VolStep))
  ELSE IF key = "ArrowDown"
    THEN changeVol(s, Max2(-VolStep, s.mVolume - VolStep))
  ELSE s

\* onKey: a closure of the mount effect; the handlers it calls are the first
\* render's, whose vol is InitialVol.
onKey(s, key) ==
  IF ~audioRef THEN s
  ELSE IF key = "m" THEN toggleMute(s, InitialVol)
  ELSE IF key = " " THEN togglePlay(s)
  ELSE IF key = "ArrowRight" THEN skip(s, SkipSec)
  ELSE IF key = "ArrowLeft" THEN skip(s, -SkipSec)
  ELSE IF key = "ArrowUp" THEN changeVol(s, Min2(100, s.mVolume + VolStep))
  ELSE IF key = "ArrowDown" THEN changeVol(s, Max2(0, s.mVolume - VolStep))
  ELSE s

\* The event is over: the fields go back to the variables.
Commit(s) ==
  /\ activated' = s.act
  /\ unlockOn' = s.on
  /\ unlockRuns' = s.runs
  /\ mMuted' = s.mMuted
  /\ mVolume' = s.mVolume
  /\ mPaused' = s.mPaused
  /\ mTime' = s.mTime
  /\ playing' = s.playing
  /\ muted' = s.muted
  /\ vol' = s.vol
  /\ played' = s.played
  /\ s.mTime <= MaxSeekSec
  /\ UNCHANGED <<aMounted, audioRef, policy, autoplay, mSrc, mDuration>>
  /\ UNCHANGED notAudio

\* keydown on window: onKey (registered by the mount effect, removed by its
\* cleanup) runs first, then unlock if it is still registered.
KeyDown ==
  \E key \in Keys, grants \in BOOLEAN :
    /\ key # "x" => grants
    /\ LET s0 == [AudioState EXCEPT !.act = @ \/ grants]
           s1 == IF aMounted THEN onKey(s0, key) ELSE s0
           s2 == DispatchUnlock(s1, "keydown")
       IN /\ aEvent' = key
          /\ Commit(s2)

\* pointerdown or touchstart on window: unlock if it is registered.  Whether
\* the event counts as a gesture that permits playback is the browser's.
PointerDown ==
  \E grants \in BOOLEAN, ev \in {"pointerdown", "touchstart"} :
    LET s0 == [AudioState EXCEPT !.act = @ \/ grants]
        s1 == DispatchUnlock(s0, ev)
    IN /\ aEvent' = "pointer"
       /\ Commit(s1)

\* click on the Play / Pause button.
ClickPlay ==
  /\ aMounted
  /\ aEvent' = "clickPlay"
  /\ Commit(togglePlay([AudioState EXCEPT !.act = TRUE]))

\* click on the -10s or the +10s button.
ClickSkip ==
  \E d \in {-SkipSec, SkipSec} :
    /\ aMounted
    /\ aEvent' = (IF d < 0 THEN "clickBack" ELSE "clickForward")
    /\ Commit(skip([AudioState EXCEPT !.act = TRUE], d))

\* click on the Mute / Unmute button: toggleMute of the current render.
ClickMute ==
  /\ aMounted
  /\ aEvent' = "clickMute"
  /\ Commit(toggleMute([AudioState EXCEPT !.act = TRUE], vol))

\* input on the volume slider: a value other than the one it shows.
SliderInput ==
  \E v \in SliderValues :
    /\ aMounted
    /\ v # vol
    /\ aEvent' = "slider"
    /\ Commit(changeVol([AudioState EXCEPT !.act = TRUE], v))

\* visibilitychange with the document visible: onVis.
VisibilityShown ==
  /\ aMounted
  /\ aEvent' = "visible"
  /\ Commit(Play(AudioState))

\* The mount-time play() was fulfilled: setMuted(false); setPlaying(true).
AutoplayThen ==
  /\ autoplay = "pending"
  /\ policy = "allow"
  /\ autoplay' = "played"
  /\ muted' = (IF aMounted THEN FALSE ELSE muted)
  /\ playing' = (IF aMounted THEN TRUE ELSE playing)
  /\ played' = FALSE
  /\ aEvent' = "then"
  /\ UNCHANGED <<aMounted, audioRef, policy, activated, unlockOn,
                 unlockRuns, mSrc,
                 mMuted, mVolume, mPaused, mTime, mDuration, vol>>
  /\ UNCHANGED notAudio

\* The mount-time play() was rejected: the muted fallback, and the unlock
\* listeners are registered.
AutoplayCatch ==
  /\ autoplay = "pending"
  /\ policy # "allow"
  /\ LET s1 == Play([AudioState EXCEPT !.mMuted = TRUE, !.mVolume = 0])
         s2 == SetPlaying(SetMuted(s1, TRUE), TRUE)
     IN /\ autoplay' = "blocked"
        /\ activated' = s2.act
        /\ unlockOn' = UnlockEvents
        /\ mMuted' = s2.mMuted
        /\ mVolume' = s2.mVolume
        /\ mPaused' = s2.mPaused
        /\ playing' = s2.playing
        /\ muted' = s2.muted
        /\ played' = s2.played
  /\ aEvent' = "catch"
  /\ UNCHANGED <<aMounted, audioRef, policy, unlockRuns, mSrc, mTime,
                 mDuration, vol>>
  /\ UNCHANGED notAudio

\* loadedmetadata: the duration becomes finite.
LoadedMetadata ==
  /\ mSrc
  /\ mDuration = <<>>
  /\ mDuration' = <<TrackSec>>
  /\ mTime' = Min2(mTime, TrackSec)
  /\ played' = FALSE
  /\ aEvent' = "loadedmetadata"
  /\ UNCHANGED <<aMounted, audioRef, policy, activated, autoplay, unlockOn,
                 unlockRuns,
                 mSrc, mMuted, mVolume, mPaused, playing, muted, vol>>
  /\ UNCHANGED notAudio

\* Playback moves the position on; a.loop = true takes it back to the start.
TimeAdvance ==
  /\ mSrc /\ ~mPaused
  /\ mDuration # <<>>
  /\ mTime' = (IF mTime + PlaySec >= mDuration[1] THEN 0 ELSE mTime + PlaySec)
  /\ played' = FALSE
  /\ aEvent' = "timeupdate"
  /\ UNCHANGED <<aMounted, audioRef, policy, activated, autoplay, unlockOn,
                 unlockRuns,
                 mSrc, mMuted, mVolume, mPaused, mDuration, playing, muted,
                 vol>>
  /\ UNCHANGED notAudio

\* The mount effect's cleanup: the element's listeners, onVis and onKey are
\* removed, then a.pause(); a.src = ""; audioRef.current = null.
AudioUnmount ==
  /\ aMounted
  /\ aMounted' = FALSE
  /\ audioRef' = FALSE
  /\ mPaused' = TRUE
  /\ mSrc' = FALSE
  /\ played' = FALSE
  /\ aEvent' = "unmount"
  /\ UNCHANGED <<policy, activated, autoplay, unlockOn, unlockRuns, mMuted,
                 mVolume,
                 mTime, mDuration, playing, muted, vol>>
  /\ UNCHANGED notAudio

\* After the mount effect: the element exists, unmuted at the initial volume,
\* play() has been called and its promise is pending.
InitAudio ==
  /\ aMounted = TRUE
  /\ audioRef = TRUE
  /\ policy \in Policies
  /\ activated = FALSE
  /\ autoplay = "pending"
  /\ unlockOn = {}
  /\ unlockRuns = 0
  /\ mSrc = TRUE
  /\ mMuted = FALSE
  /\ mVolume = InitialVol
  /\ mPaused = (policy # "allow")
  /\ mTime = 0
  /\ mDuration = <<>>
  /\ playing = TRUE
  /\ muted = FALSE
  /\ vol = InitialVol
  /\ played = TRUE
  /\ aEvent = "mount"

\* The audio bar as the other components' specifications hold it: mounted
\* where unmuted autoplay is permitted, its promise not yet settled.
InitAudioIdle ==
  /\ InitAudio
  /\ policy = "allow"

NextAudio ==
  \/ KeyDown
  \/ PointerDown
  \/ ClickPlay
  \/ ClickSkip
  \/ ClickMute
  \/ SliderInput
  \/ VisibilityShown
  \/ AutoplayThen
  \/ AutoplayCatch
  \/ LoadedMetadata
  \/ TimeAdvance
  \/ AudioUnmount

\* ------------------------------------------------------- firework bursts
\* The bursts of one slide frame.  The bloom edition animates each burst
\* (Pop) from a requestAnimationFrame loop; the no-blur edition (Firework)
\* hands it to the CSS animation ram-firework.  Scales are in 1/ScaleOne,
\* Pop's clock in frames of 1/60 s, the CSS clock in 1/300 s, delays in
\* hundredths of a second.  Pop's floating-point sums are taken exactly.

ScaleOne == 1800

\* Pop: phase = (t + delay * 2) % 2.8, in frames.
PopPeriod == 168

\* Pop: phase < 0.3 ramps.
PopRampEnd == 18

\* Pop: phase < 1.2 holds.
PopHoldEnd == 72

\* Pop: Math.max(0, 1.8 - phase).
PopFadeFrom == 108

\* animation: ram-firework 1.6s, in 1/300 s.
CssPeriod == 480

\* @keyframes ram-firework: the 70% keyframe, in 1/300 s.
CssKeyframe70 == 336

\* One frame of 1/60 s on the CSS clock.
CssFrame == 5

\* Delays a slide may configure (0 is the default of a missing delay).
FwDelays == {0, 20, 70, 140, 160}

FwMax(a, b) == IF a >= b THEN a ELSE b

\* Pop, go(): t after the call made by the effect and n frame callbacks.
PopPhase(delay, n) == (n + 1 + (delay * 2 * 60) \div 100) % PopPeriod

\* Pop, go(): s of a phase.
PopScale(phase) ==
  IF phase < PopRampEnd THEN (phase * ScaleOne) \div PopRampEnd
  ELSE IF phase < PopHoldEnd THEN ScaleOne
  ELSE FwMax(0, ((PopFadeFrom - phase) * ScaleOne) \div 60)

\* Steps of the curve parameter of a timing function.
EaseSteps == 200

\* ease-out is cubic-bezier(0, 0, 0.58, 1): x (in 1/100000) and y (in
\* 1/10000) of the curve at parameter S/EaseSteps.
EaseX(S) == (34800 * S * S - 74 * S * S * S) \div 8000
EaseY(S) == (600 * S * S - 2 * S * S * S) \div 800

\* Output progress (1/10000) of ease-out at input progress num/den: y at the
\* last parameter whose x is not beyond the input (x grows with S).
EaseOut(num, den) ==
  LET x == (num * 100000) \div den
      S == Cardinality({s \in 1..EaseSteps : EaseX(s) <= x})
  IN EaseY(S)

\* Firework: position in the running iteration at n frames after mount, or
\* -1 while animation-delay has not elapsed.
CssPhase(delay, n) ==
  LET now == n * CssFrame
      start == delay * 3
  IN IF now < start THEN -1 ELSE (now - start) % CssPeriod

\* Firework: the scale ram-firework gives at a phase: scale(0) at 0%,
\* scale(1) at 70%, scale(1.25) at 100%, eased between keyframes; before
\* the animation starts the element has no scale transform.
CssScale(phase) ==
  IF phase < 0 THEN ScaleOne
  ELSE IF phase < CssKeyframe70
    THEN (EaseOut(phase, CssKeyframe70) * ScaleOne) \div 10000
  ELSE ScaleOne
       + (EaseOut(phase - CssKeyframe70, CssPeriod - CssKeyframe70)
            * (ScaleOne \div 4)) \div 10000

\* Phase and scale of burst b (1 or 2) of the mounted frame.
BurstPhase(b) ==
  IF fwEdition = "bloom" THEN PopPhase(fwDelays[b], fwFrames)
  ELSE CssPhase(fwDelays[b], fwFrames)

BurstScale(b) ==
  IF fwEdition = "bloom" THEN PopScale(BurstPhase(b))
  ELSE CssScale(BurstPhase(b))

\* A slide frame mounts with two bursts.
FireworksMount ==
  /\ ~fwMounted
  /\ fwMounted' = TRUE
  /\ fwEdition' \in {"bloom", "noblur"}
  /\ fwDelays' \in FwDelays \X FwDelays
  /\ fwFrames' = 0
  /\ UNCHANGED notFireworks

\* One animation frame: go() runs for every Pop, the CSS clock advances.
FireworksFrame ==
  /\ fwMounted
  /\ fwFrames < MaxFwFrames
  /\ fwFrames' = fwFrames + 1
  /\ UNCHANGED <<fwMounted, fwEdition, fwDelays>>
  /\ UNCHANGED notFireworks

InitFireworks ==
  /\ fwMounted = FALSE
  /\ fwEdition = "bloom"
  /\ fwDelays = <<0, 0>>
  /\ fwFrames = 0

NextFireworks ==
  \/ FireworksMount
  \/ FireworksFrame

\* ---------------------------------------------------------- specifications
\* One default configuration of the showcase, for the specifications of the
\* other components.
ShowcaseDefault ==
  /\ slides = <<[src |-> "ram1", emberCount |-> 80]>>
  /\ autoPlay = TRUE
  /\ intervalMs = 5200

\* The slide controller with its slide frame.
Init ==
  /\ InitShowcase
  /\ InitGreeting
  /\ InitEmbers
  /\ InitVignette
  /\ InitHookIdle
  /\ InitFireworks
  /\ InitAudioIdle

Spec == Init /\ [][NextShowcase]_vars

\* The rotating greeting.
GreetingInit ==
  /\ ShowcaseDefault
  /\ InitShowcase
  /\ InitGreeting
  /\ InitEmbers
  /\ InitVignette
  /\ InitHookIdle
  /\ InitFireworks
  /\ InitAudioIdle

GreetingSpec == GreetingInit /\ [][NextGreetingStep]_vars

\* The particle field of one slide frame.
EmbersInit ==
  /\ ShowcaseDefault
  /\ InitShowcase
  /\ InitGreeting
  /\ InitEmbers
  /\ InitVignette
  /\ InitHookIdle
  /\ InitFireworks
  /\ InitAudioIdle

EmbersSpec == EmbersInit /\ [][NextEmbers]_vars

\* The vignette of a rendered slide frame.
VignetteInit ==
  /\ ShowcaseDefault
  /\ InitShowcase
  /\ InitGreeting
  /\ InitEmbers
  /\ InitVignette
  /\ InitHookIdle
  /\ InitFireworks
  /\ InitAudioIdle

VignetteSpec == VignetteInit /\ [][NextVignette]_vars

\* The firework bursts on their own.
FireworksInit ==
  /\ ShowcaseDefault
  /\ InitShowcase
  /\ InitGreeting
  /\ InitEmbers
  /\ InitVignette
  /\ InitAudioIdle
  /\ InitHookIdle
  /\ InitFireworks

FireworksSpec == FireworksInit /\ [][NextFireworks]_vars

\* useInterval on its own.
HookInit ==
  /\ ShowcaseDefault
  /\ InitShowcase
  /\ InitGreeting
  /\ InitEmbers
  /\ InitVignette
  /\ InitAudioIdle
  /\ InitHook
  /\ InitFireworks

HookSpec == HookInit /\ [][NextHook]_vars

\* The audio bar.
AudioInit ==
  /\ ShowcaseDefault
  /\ InitShowcase
  /\ InitGreeting
  /\ InitEmbers
  /\ InitVignette
  /\ InitHookIdle
  /\ InitFireworks
  /\ InitAudio

AudioSpec == AudioInit /\ [][NextAudio]_vars

\* ------------------------------------------------------------- properties

\* C1: for every slide count total > 0, after any sequence of next, prev,
\* autoplay ticks and dot picks goTo(i) with 0 <= i < total, the slide index
\* satisfies 0 <= index < total.
IndexInRange == total > 0 /\ index \in 0..(total - 1)

\* A three-slide showcase that has seen user input and ticks, on its last slide.
IndexInRangeWitness ==
  total = 3 /\ userActed /\ ticks > 1 /\ index = total - 1

\* C2: wrapping is exact: next() from total-1 yields 0 and otherwise index+1;
\* prev() from 0 yields total-1 and otherwise index-1.
WrapExact ==
  [][ /\ next => index' = (IF index = total - 1 THEN 0 ELSE index + 1)
      /\ prev => index' = (IF index = 0 THEN total - 1 ELSE index - 1) ]_vars

\* Only user input so far, the list has several slides, and the index stands
\* on the last slide (where prev from 0 lands) with next about to wrap.
WrapExactWitness ==
  total = MaxTotal /\ userActed /\ ticks = 0 /\ index = total - 1

\* C3: with autoPlay on and no user input each interval tick advances the
\* index by exactly one slide: after k ticks index = k mod total (4 slides:
\* 3 after three ticks, 0 after the fourth).
TicksAdvanceByOne == ~userActed => index = ticks % total

\* Four slides, four ticks, no user input: the index has wrapped to 0.
TicksAdvanceWitness ==
  total = 4 /\ ~userActed /\ ticks = 4 /\ index = 0 /\ autoPlay

\* C4: when autoPlay is false no slide-advance timer is armed, the index then
\* changes only by prev/next/dot input, and switching autoPlay from true to
\* false clears the timer that was armed.
AutoPlayOffNoTimer ==
  /\ [](~autoPlay => timers = {})
  /\ [][(~autoPlay /\ index' # index) => (next \/ prev \/ goTo)]_vars
  /\ [][(autoPlay /\ ~autoPlay') => (timers # {} /\ timers' = {})]_vars

\* autoPlay was on (ticks fired), has been switched off, and the user has
\* navigated: no timer is left.
AutoPlayOffWitness ==
  ~autoPlay /\ ticks > 0 /\ userActed /\ timers = {} /\ index > 0

\* C5: at most one interval timer is armed per useInterval instance; a
\* re-render that changes the delay clears the old timer before arming the
\* new one (none for a null delay), and a re-render that changes only the
\* callback arms no timer.
AtMostOneTimer ==
  /\ [](Cardinality(timers) <= 1)
  /\ [][ IF DelayOf(autoPlay', intervalMs') = DelayOf(autoPlay, intervalMs)
           THEN timers' = timers
           ELSE /\ \A t \in timers' : t.delay = DelayOf(autoPlay', intervalMs')
                /\ Cardinality(timers') =
                     (IF DelayOf(autoPlay', intervalMs') = NullDelay THEN 0 ELSE 1)
       ]_vars

\* The timer armed now carries the overriding delay, after ticks of a timer
\* and user input (renders that changed only the callback).
AtMostOneTimerWitness ==
  /\ autoPlay /\ ticks > 0 /\ userActed
  /\ timers = {[id |-> intervalId, delay |-> <<3000>>]}

\* C6: every change of the slide index tears the child Slide Frame down and
\* reconstructs it (its animation clocks restart and its particle pool is
\* re-created), for every configured slide list.
FrameRebuiltOnIndexChange ==
  [][index' # index => (fxClock' = 0 /\ poolAge' = 0)]_vars

\* C7: each greeting tick sets fade = false and leaves the index unchanged;
\* 220 ms later the index becomes (index + 1) mod N and fade becomes true in
\* the same step; the text changes only while fade is false.
GreetingStepShape ==
  [][ /\ ([left |-> FadeMs, live |-> TRUE] \in gTimeouts' \ gTimeouts)
           => (gFade' = FALSE /\ gI' = gI)
      /\ ( /\ \E t \in gTimeouts : t.live
           /\ ~(\E t \in gTimeouts' : t.live)
           /\ gMounted' )
           => /\ gI' = (gI + 1) % GreetingCount
              /\ gFade' = TRUE
              /\ GreetingIntervalMs - gNext' = FadeMs
      /\ (gMounted /\ gMounted' /\ gI' # gI) => gFade = FALSE ]_vars

\* The state right after the first swap: 220 ms after the first tick.
GreetingStepWitness ==
  /\ gMounted /\ gTicked /\ gI = 1 /\ gFade
  /\ GreetingIntervalMs - gNext = FadeMs

\* C8: while mounted the greeting index moves through GREETINGS in list order
\* (every change is to the next string, wrapping after the last), and fade is
\* false exactly during the 220 ms after each tick.
GreetingCycle ==
  /\ [](gMounted =>
          (gFade = FALSE <=> (gTicked /\ GreetingIntervalMs - gNext < FadeMs)))
  /\ [][(gMounted /\ gMounted' /\ gI' # gI) =>
          gI' = (IF gI = GreetingCount - 1 THEN 0 ELSE gI + 1)]_vars

\* The last of the twelve strings is shown, inside the fade window of the
\* tick that will wrap the index.
GreetingCycleWitness ==
  gMounted /\ gI = GreetingCount - 1 /\ ~gFade /\ gTimeouts # {}

\* C9: every timer a component registered is cancelled at its unmount: for
\* the greeting, once it is unmounted neither its interval nor a 220 ms
\* timeout is pending.
UnmountCancelsAll == ~gMounted => (gTimers = {} /\ gTimeouts = {})

\* C10: a particle field configured with emberCount = n holds exactly n
\* particles and draws exactly n at every frame of its mounted lifetime; no
\* frame, recycle or resize adds or removes a slot.
PoolSizeConstant ==
  eMounted => (Len(ps) = emberCount /\ eDrawn = emberCount /\ eFrames >= 1)

\* A pool of two that has run frames, recycled a particle and been resized.
PoolSizeWitness ==
  /\ eMounted /\ emberCount = 2 /\ Len(ps) = 2
  /\ eRecycled /\ eResized /\ eFrames > 30

\* C11: in every frame of a mounted field each particle either is not
\* recycled and its alpha drops by exactly the decay, or is recycled and is
\* rewritten to a bottom-edge spawn: alpha in [0.4, 1), y = surface height
\* plus the margin, x inside the surface width, and radius, velocity and hue
\* inside the ranges a spawn draws from.
FrameDecaysOrRespawns ==
  [][(eMounted /\ eMounted' /\ emberCount' = emberCount /\ ps' # ps) =>
       \A k \in 1..Len(ps) :
         LET p == ps[k]
             q == ps'[k]
             recycled == \/ p.y + p.vy < -(EdgeMarginPx * dpr * PxUnit)
                         \/ p.a - AlphaDecay <= AlphaFloor
         IN IF recycled
              THEN /\ q.a \in 4000..9999
                   /\ q.y = (canvasH + EdgeMarginPx * dpr) * PxUnit
                   /\ q.x >= 0 /\ q.x < canvasW * PxUnit
                   /\ q.r >= 10000 * dpr /\ q.r < 28000 * dpr
                   /\ q.vx >= -400 * dpr /\ q.vx < 400 * dpr
                   /\ q.vy > -3200 * dpr /\ q.vy <= -1200 * dpr
                   /\ q.hue >= HueMin * 100 /\ q.hue < HueMax * 100
              ELSE /\ q.a = p.a - AlphaDecay
                   /\ q.a < p.a]_vars

\* A pool of two after many frames, one slot freshly recycled at the bottom
\* edge and the other still decaying.
FrameDecaysOrRespawnsWitness ==
  /\ eMounted /\ Len(ps) = 2 /\ eFrames > 30
  /\ ps[1].y = (canvasH + EdgeMarginPx * dpr) * PxUnit
  /\ ps[2].y < canvasH * PxUnit /\ ps[2].a < 3000

NoContextNoLoop == ctxNull => (~eRun /\ ~eRaf /\ ~eThrown)

\* C14: the vignette strength a render uses is within [0, 1] for every
\* configured input (below 0 gives 0, above 1 gives 1, a missing input gives
\* the default).
VignetteInUnitRange == vEdition # "none" => (vUsed >= 0 /\ vUsed <= 100)

\* C15: changeVol(v) with v > 0 on a muted element leaves it unmuted (element
\* and flag) at volume v; changeVol(0) leaves the muted flag, and the
\* element's, as they were.
ChangeVolUnmutes ==
  [][(/\ aMounted
      /\ \/ aEvent' = "slider"
         \/ aEvent' \in {"ArrowUp", "ArrowDown"} /\ ~unlockArmed) =>
       (/\ mVolume' = vol'
        /\ (mMuted /\ vol' > 0) => (~mMuted' /\ ~muted' /\ played')
        /\ vol' = 0 => (mMuted' = mMuted /\ muted' = muted))]_vars

\* The slider was moved to 0.35 during the muted fallback: unmuted at 0.35.
ChangeVolUnmutesWitness ==
  /\ aMounted /\ aEvent = "slider" /\ unlockArmed
  /\ vol = 35 /\ mVolume = 35 /\ ~mMuted /\ ~muted

\* C16: skip(-10) and skip(+10) set the position to the current position
\* plus the delta, clamped into [0, duration] when the duration is finite
\* (and kept from going below 0 when it is not).
SkipClamps ==
  [][(/\ aMounted
      /\ aEvent' \in {"clickBack", "clickForward", "ArrowLeft", "ArrowRight"}) =>
       LET d == IF aEvent' \in {"clickBack", "ArrowLeft"}
                  THEN -SkipSec ELSE SkipSec
           t == mTime + d
       IN mTime' = (IF t < 0 THEN 0
                    ELSE IF mDuration # <<>> /\ t > mDuration[1]
                      THEN mDuration[1]
                    ELSE t)]_vars

\* A forward skip on a track of known duration ended at the duration.
SkipClampsWitness ==
  /\ aMounted /\ aEvent = "clickForward"
  /\ mDuration # <<>> /\ mTime = mDuration[1]

\* C17: a rejected mount-time play() puts the mounted bar into the muted
\* fallback (element and flag muted, a muted play() requested, unlock
\* listeners registered); the next pointer, key or touch event while mounted
\* leaves the element and the flag unmuted with play() requested, and the
\* listeners gone.
BlockedAutoplayRecovers ==
  /\ [][(aMounted /\ autoplay = "pending" /\ autoplay' = "blocked") =>
          (mMuted' /\ muted' /\ played' /\ unlockArmed')]_vars
  /\ [][(aMounted /\ unlockArmed /\ aEvent' \in Keys \cup {"pointer"}) =>
          (~unlockArmed' /\ ~mMuted' /\ ~muted' /\ played')]_vars

\* The fallback was entered and a pointer event has unlocked it.
BlockedAutoplayRecoversWitness ==
  /\ aMounted /\ autoplay = "blocked" /\ aEvent = "pointer"
  /\ ~unlockArmed /\ ~mMuted /\ ~muted /\ played

\* C18: when the unlock listener runs, the element's volume afterwards is
\* the volume the user last configured (the vol state: slider, ArrowUp or
\* ArrowDown, the same key press included), or the initial one.
UnlockRestoresConfiguredVolume ==
  [][(aMounted /\ unlockArmed /\ ~unlockArmed') => mVolume' = vol']_vars

\* C19: after unmount the element is paused, its source cleared and the ref
\* dropped, and no later event requests playback or changes the element's
\* muted flag or volume.
UnmountReleases ==
  /\ [](~aMounted => (mPaused /\ ~mSrc /\ ~audioRef))
  /\ [][~aMounted =>
          (/\ mMuted' = mMuted /\ mVolume' = mVolume /\ mPaused' = mPaused
           /\ ~played')]_vars

\* C20: an unmute by the Mute button or by the "m" key leaves the element's
\* volume equal to the volume most recently set.
UnmuteRestoresLastVolume ==
  [][(/\ aMounted /\ ~unlockArmed
      /\ aEvent' \in {"clickMute", "m"}
      /\ mMuted /\ ~mMuted') => mVolume' = vol']_vars

\* C21: once the mount-time play() has settled, the playing flag of the
\* mounted bar is true exactly when the element is not paused.
PlayingMirrorsMedia ==
  (aMounted /\ autoplay # "pending") => (playing <=> ~mPaused)

\* The whole page (App): the showcase on two slides with autoplay on, its
\* greeting and the audio bar, their handlers interleaved.
AppInit ==
  /\ slides = <<[src |-> "ram1", emberCount |-> 80],
                [src |-> "ram2", emberCount |-> 80]>>
  /\ autoPlay = TRUE
  /\ intervalMs = 5200
  /\ InitShowcase
  /\ InitGreeting
  /\ InitEmbers
  /\ InitVignette
  /\ InitHookIdle
  /\ InitFireworks
  /\ InitAudioIdle

NextApp ==
  \/ next
  \/ prev
  \/ goTo
  \/ Tick
  \/ GreetingTick
  \/ GreetingTimeout
  \/ KeyDown

AppSpec == AppInit /\ [][NextApp]_vars

\* The audio session: the flags and the element they describe.
audioSession ==
  <<playing, muted, vol, mMuted, mVolume, mPaused, mTime, mDuration>>

\* C22: the three activities are independent: a step of the slide
\* controller (next, prev, goTo, autoplay tick) leaves the greeting's index
\* and fade and the audio session as they were; a greeting tick or swap
\* leaves the slide index and the audio session; an audio step (keyboard
\* shortcut) leaves the slide index and the greeting's index and fade.
ActivitiesIndependent ==
  [][/\ showcaseVars' # showcaseVars =>
          (gI' = gI /\ gFade' = gFade /\ audioSession' = audioSession)
     /\ greetingVars' # greetingVars =>
          (index' = index /\ audioSession' = audioSession)
     /\ audioVars' # audioVars =>
          (index' = index /\ gI' = gI /\ gFade' = gFade)]_vars

\* All three have acted: the second slide after ticks and a button, the
\* greeting on a later string, the volume raised by ArrowUp.
ActivitiesIndependentWitness ==
  /\ index = 1 /\ userActed /\ ticks >= 2
  /\ gI >= 2 /\ ~gFade
  /\ aEvent = "ArrowUp" /\ vol = InitialVol + VolStep

TickCallsCurrent ==
  /\ [][hTicks' # hTicks => (hCalled' = hCallback /\ hSaved = hCallback)]_vars
  /\ [][(hCallback' # hCallback /\ hDelay' = hDelay) =>
          (hTimers' = hTimers /\ hId' = hId)]_vars

\* A tick of a timer armed under one callback has called a later one.
TickCallsCurrentWitness ==
  /\ hTimers # {} /\ hTicks >= 1
  /\ hCalled = hCallback /\ hArmedCb # hCallback

\* C25: in every frame a particle is recycled exactly when, after the
\* frame's advance, its alpha is at most 0.02 or its y is below -10 * DPR;
\* otherwise it is the advanced particle and nothing else: position plus
\* velocity, alpha minus the decay, radius, velocity and hue as before.
RecycleExactlyWhenDead ==
  [][(eMounted /\ eMounted' /\ emberCount' = emberCount /\ ps' # ps) =>
       \A k \in 1..Len(ps) :
         LET p == ps[k]
             adv == [x |-> p.x + p.vx, y |-> p.y + p.vy,
                     a |-> p.a - AlphaDecay,
                     r |-> p.r, vx |-> p.vx, vy |-> p.vy, hue |-> p.hue]
             dead == \/ adv.a <= AlphaFloor
                     \/ adv.y < -(EdgeMarginPx * dpr * PxUnit)
         IN /\ dead => (/\ ps'[k].y = (canvasH + EdgeMarginPx * dpr) * PxUnit
                        /\ ps'[k].a >= 4000)
            /\ ~dead => ps'[k] = adv]_vars

\* After an earlier recycle, a particle still inside the surface whose alpha
\* reaches the threshold at the next advance.
RecycleExactlyWhenDeadWitness ==
  /\ eMounted /\ eRecycled
  /\ \E k \in 1..Len(ps) :
       /\ ps[k].a - AlphaDecay <= AlphaFloor
       /\ ps[k].y + ps[k].vy >= 0

\* C26: a mounted field has exactly one redraw loop: one frame callback is
\* queued while it is mounted, never more than one, and none once its
\* cleanup has run; after the cleanup no step changes the particles or draws.
OneRedrawLoop ==
  /\ [](/\ eQueued <= 1
        /\ eMounted => (eQueued = 1 /\ eRun /\ eRaf)
        /\ (~eMounted /\ ~ctxNull) => (eQueued = 0 /\ ~eRun /\ ~eRaf))
  /\ [][(~eMounted /\ ~eMounted' /\ ~ctxNull') =>
          (ps' = ps /\ eDrawn' = eDrawn)]_vars

\* A field of two particles on the 640 x 360 host has been torn down.
OneRedrawLoopWitness ==
  /\ ~eMounted /\ ~ctxNull /\ eQueued = 0
  /\ emberCount = 2 /\ hostSize = <<640, 360>>

\* C27: over any sequence of pointerdown, keydown and touchstart events after
\* a blocked autoplay, the body of unlock runs at most once, and once it has
\* run, unlock is registered on none of the three events.
UnlockOneShot ==
  /\ unlockRuns <= 1
  /\ unlockRuns >= 1 => unlockOn = {}
  /\ unlockOn # {} => (unlockOn = UnlockEvents /\ autoplay = "blocked")

\* The body has run on a key press after a blocked autoplay, and every
\* listener is gone.
UnlockOneShotWitness ==
  /\ autoplay = "blocked"
  /\ unlockRuns = 1
  /\ unlockOn = {}
  /\ aEvent \in Keys

\* The scale of every mounted burst lies in [0, 1].
BurstScaleInRange ==
  fwMounted => \A b \in 1..2 : BurstScale(b) \in 0..ScaleOne

\* From one frame to the next the scale of a burst never changes by more
\* than one step of the 0 -> 1 ramp: no jump in the ramp, the hold, the fade
\* or the restart.
BurstScaleContinuous ==
  [][(fwMounted /\ fwMounted') =>
       \A b \in 1..2 :
         /\ BurstScale(b)' - BurstScale(b) <= ScaleOne \div PopRampEnd
         /\ BurstScale(b) - BurstScale(b)' <= ScaleOne \div PopRampEnd]_vars

\* Two running bursts with different delays are at different phases.
BurstsStaggered ==
  (/\ fwMounted
   /\ fwDelays[1] # fwDelays[2]
   /\ BurstPhase(1) >= 0
   /\ BurstPhase(2) >= 0) => BurstPhase(1) # BurstPhase(2)

\* C28: in every frame the scale of every burst lies in [0, 1] and moves
\* through its cycle (ramp 0 -> 1, hold at 1, fade to 0, restart) without a
\* jump, and two bursts with different configured delays are at different
\* phases of the cycle.
FireworkBurstCycle ==
  /\ []BurstScaleInRange
  /\ BurstScaleContinuous
  /\ []BurstsStaggered

\* C29: whenever the audio bar is mounted and not muted, the stored volume
\* the slider shows equals the volume of the media resource.
VolumeMirror ==
  (aMounted /\ ~muted /\ ~mMuted) => vol = mVolume

\* k consecutive next() calls, and k consecutive prev() calls, from p.
RECURSIVE NextTimes(_, _)
NextTimes(p, k) == IF k = 0 THEN p ELSE NextTimes(NextIndex(p), k - 1)

RECURSIVE PrevTimes(_, _)
PrevTimes(p, k) == IF k = 0 THEN p ELSE PrevTimes(PrevIndex(p), k - 1)

\* C30: for every total > 0 and every index in [0, total), prev after next
\* and next after prev both return the original index, and total consecutive
\* next() calls (or total consecutive prev() calls) return to the start.
NextPrevInverse ==
  /\ [](/\ PrevIndex(NextIndex(index)) = index
        /\ NextIndex(PrevIndex(index)) = index
        /\ NextTimes(index, total) = index
        /\ PrevTimes(index, total) = index)
  /\ [][ /\ next => PrevIndex(index') = index
         /\ prev => NextIndex(index') = index ]_vars

\* The user has stepped through the longest list to a slide in its middle.
NextPrevInverseWitness ==
  total = MaxTotal /\ userActed /\ ticks = 0 /\ index = 1

====
